---- MODULE Spec2Model ----
(***************************************************************************)
(* Model of the Meduhub registration backend (src/server.js): the Express  *)
(* handlers POST /api/register, GET /api/registrations and                 *)
(* PATCH /api/registrations/:id over the Firestore collection              *)
(* 'registrations'.                                                        *)
(*                                                                         *)
(* Strings the code inspects character by character (name, phone, email,   *)
(* page, limit) are sequences of one-character strings; strings the code   *)
(* only compares or copies (state, city, inquiryType, status, notes) are   *)
(* TLA+ strings.  A JSON body or a query string is a function whose DOMAIN *)
(* is the set of keys the client sent: a key outside the DOMAIN is         *)
(* JavaScript's undefined.                                                 *)
(*                                                                         *)
(* In Spec requests are handled one at a time: a handler runs from an idle *)
(* state (res.op = "none"), leaves the request and its response in res,    *)
(* and Done returns to idle.  A store call may reject (fault); the catch   *)
(* block of each handler answers 500.                                      *)
(*                                                                         *)
(* Spec is the whole server.  SpecRegister, SpecAdmin and SpecList are the *)
(* same handlers with the requests narrowed to those a group of properties *)
(* is about.  SpecRace is POST /api/register with two requests in flight,  *)
(* interleaved at the awaits of the handler.                               *)
(***************************************************************************)
EXTENDS Integers, Sequences, FiniteSets, TLC

VARIABLES
  store,     \* the collection: document id -> fields
  now,       \* the clock, in ms
  res,       \* the request being answered and its response; op = "none": idle
  lastReg,   \* the id and body of the last request if it was a 201 register
  inflight   \* client -> its POST /api/register between two awaits

vars == <<store, now, res, lastReg, inflight>>

(***************************************************************************)
(* Bounds of the model.                                                    *)
(***************************************************************************)
MaxRecords == 2      \* documents the collection may hold
MaxTicks == 3        \* clock advances, each of TickMs

(***************************************************************************)
(* Program constants.                                                      *)
(***************************************************************************)
WindowMs == 24 * 60 * 60 * 1000
DefaultPage == 1
DefaultLimit == 20
validStatuses == {"new", "contacted", "enrolled", "closed"}

\* the clock advances by half a window: two records can be created 0, 1/2, 1
\* (the inclusive edge of the window) or 3/2 windows apart
TickMs == WindowMs \div 2
Ids == 1 .. MaxRecords
NoSuchId == 0

(***************************************************************************)
(* JavaScript string primitives.                                           *)
(***************************************************************************)
UpperChars == <<"A","B","C","D","E","F","G","H","I","J","K","L","M",
                "N","O","P","Q","R","S","T","U","V","W","X","Y","Z">>
LowerChars == <<"a","b","c","d","e","f","g","h","i","j","k","l","m",
                "n","o","p","q","r","s","t","u","v","w","x","y","z">>
Whitespace == {" ", "\t", "\n", "\r"}
Digits == <<"0","1","2","3","4","5","6","7","8","9">>

IsDigit(c) == \E i \in 1..Len(Digits) : Digits[i] = c
DigitVal(c) == (CHOOSE i \in 1..Len(Digits) : Digits[i] = c) - 1

toLowerCaseChar(c) ==
  IF \E i \in 1..Len(UpperChars) : UpperChars[i] = c
  THEN LowerChars[CHOOSE i \in 1..Len(UpperChars) : UpperChars[i] = c]
  ELSE c

toLowerCase(s) == [i \in 1..Len(s) |-> toLowerCaseChar(s[i])]

\* String.prototype.trim: drop leading and trailing whitespace
trim(s) ==
  LET keep == {i \in 1..Len(s) : s[i] \notin Whitespace}
  IN IF keep = {} THEN <<>>
     ELSE LET lo == CHOOSE i \in keep : \A j \in keep : i <= j
              hi == CHOOSE i \in keep : \A j \in keep : j <= i
          IN SubSeq(s, lo, hi)

\* every character of s[lo..hi] is in [^\s@], and the range is not empty
NoSpaceAt(s, lo, hi) ==
  /\ lo <= hi
  /\ \A i \in lo..hi : s[i] \notin Whitespace /\ s[i] # "@"

\* /^[6-9]\d{9}$/
PhoneRegex(s) ==
  /\ Len(s) = 10
  /\ s[1] \in {"6", "7", "8", "9"}
  /\ \A i \in 2..10 : IsDigit(s[i])

\* /^[^\s@]+@[^\s@]+\.[^\s@]+$/
EmailRegex(s) ==
  \E a \in 1..Len(s) : \E d \in 1..Len(s) :
    /\ a < d
    /\ s[a] = "@"
    /\ s[d] = "."
    /\ NoSpaceAt(s, 1, a - 1)
    /\ NoSpaceAt(s, a + 1, d - 1)
    /\ NoSpaceAt(s, d + 1, Len(s))

\* decimal value of a string of digits: Number(s) and parseInt(s) agree on these
RECURSIVE parseInt(_)
parseInt(s) ==
  IF Len(s) = 0 THEN 0
  ELSE 10 * parseInt(SubSeq(s, 1, Len(s) - 1)) + DigitVal(s[Len(s)])

\* !x for a key of a body or query: undefined or the empty string
Falsy(body, k) == k \notin DOMAIN body \/ body[k] = <<>>
FalsyStr(body, k) == k \notin DOMAIN body \/ body[k] = ""

\* Math.ceil(a / b) for a >= 0, b > 0
Ceil(a, b) == (a + b - 1) \div b

Min(a, b) == IF a < b THEN a ELSE b
Max(a, b) == IF a > b THEN a ELSE b

\* Array.prototype.slice(start, end) on a sequence (indices are 0-based in
\* JavaScript; a negative index counts from the end)
slice(seq, start, end) ==
  LET len == Len(seq)
      k == IF start < 0 THEN Max(len + start, 0) ELSE Min(start, len)
      final == IF end < 0 THEN Max(len + end, 0) ELSE Min(end, len)
  IN IF k >= final THEN <<>> ELSE SubSeq(seq, k + 1, final)

(***************************************************************************)
(* validateRegistration: the ordered list of messages, each check          *)
(* evaluated independently.                                                *)
(***************************************************************************)
nameError(data) == Falsy(data, "name") \/ Len(trim(data["name"])) < 2
phoneError(data) == Falsy(data, "phone") \/ ~PhoneRegex(data["phone"])
emailError(data) == Falsy(data, "email") \/ ~EmailRegex(data["email"])
stateError(data) == FalsyStr(data, "state")
cityError(data) == FalsyStr(data, "city")

\* mutant of validateRegistration: the phone check is left out
validateRegistrationNoPhone(data) ==
  (IF nameError(data) THEN <<"Name must be at least 2 characters">> ELSE <<>>)
  \o (IF emailError(data) THEN <<"Please enter a valid email address">> ELSE <<>>)
  \o (IF stateError(data) THEN <<"State is required">> ELSE <<>>)
  \o (IF cityError(data) THEN <<"City is required">> ELSE <<>>)

validateRegistration(data) ==
  (IF nameError(data) THEN <<"Name must be at least 2 characters">> ELSE <<>>)
  \o (IF phoneError(data)
      THEN <<"Please enter a valid 10-digit Indian mobile number">> ELSE <<>>)
  \o (IF emailError(data) THEN <<"Please enter a valid email address">> ELSE <<>>)
  \o (IF stateError(data) THEN <<"State is required">> ELSE <<>>)
  \o (IF cityError(data) THEN <<"City is required">> ELSE <<>>)

\* the pre-check of the handler: !name || !phone || !email || !state || !city
missingRequired(body) ==
  \/ Falsy(body, "name")
  \/ Falsy(body, "phone")
  \/ Falsy(body, "email")
  \/ FalsyStr(body, "state")
  \/ FalsyStr(body, "city")

(***************************************************************************)
(* The Firestore collection: store maps the id of each document to its     *)
(* fields.                                                                 *)
(***************************************************************************)
\* mutant of queryEmpty: the lower bound of the window is exclusive
queryEmptyStrict(st, field, value, since) ==
  ~ \E id \in DOMAIN st : st[id][field] = value /\ st[id].createdAt > since

\* .where(field, '==', value).where('createdAt', '>=', since).limit(1).get().empty
queryEmpty(st, field, value, since) ==
  ~ \E id \in DOMAIN st : st[id][field] = value /\ st[id].createdAt >= since

twentyFourHoursAgo(t) == t - WindowMs

normalizedPhone(body) == trim(body["phone"])
\* mutant of normalizedEmail: the email is trimmed but not lower-cased
normalizedEmailCased(body) == trim(body["email"])

normalizedEmail(body) == toLowerCase(trim(body["email"]))

registrationData(body, t) ==
  [name |-> trim(body["name"]),
   phone |-> normalizedPhone(body),
   email |-> normalizedEmail(body),
   state |-> body["state"],
   city |-> body["city"],
   inquiryType |-> IF FalsyStr(body, "inquiryType") THEN "register"
                   ELSE body["inquiryType"],
   createdAt |-> t,
   status |-> "new",
   notes |-> ""]

\* a document as the handlers send it: { id: doc.id, ...doc.data() }
withId(st, id) ==
  [id |-> id, name |-> st[id].name, phone |-> st[id].phone,
   email |-> st[id].email, state |-> st[id].state, city |-> st[id].city,
   inquiryType |-> st[id].inquiryType, createdAt |-> st[id].createdAt,
   status |-> st[id].status, notes |-> st[id].notes]

NoBody == [x \in {} |-> ""]

\* res: op, body (the JSON body or the query), id (the :id of a PATCH, or the
\* id a register generated) and fault are the request; code, data and the
\* pagination fields are the response; calls counts the store calls issued
Idle ==
  [op |-> "none", code |-> 0, fault |-> 0, calls |-> 0, body |-> NoBody,
   id |-> NoSuchId, data |-> <<>>, page |-> 0, limit |-> 0, total |-> 0,
   pages |-> 0]

Response(op, code, fault, calls, body, id, data) ==
  [op |-> op, code |-> code, fault |-> fault, calls |-> calls, body |-> body,
   id |-> id, data |-> data, page |-> 0, limit |-> 0, total |-> 0, pages |-> 0]

NoReg == [id |-> NoSuchId, body |-> NoBody]

(***************************************************************************)
(* POST /api/register.  fault = k > 0: the k-th store call of the handler  *)
(* (phone query, email query, add) rejects, if the handler gets that far.  *)
(* newId is the id Firestore generates for the added document.             *)
(***************************************************************************)
registerStatus(st, t, body, fault) ==
  IF missingRequired(body) THEN 400
  ELSE IF Len(validateRegistration(body)) > 0 THEN 400
  ELSE IF fault = 1 THEN 500
  ELSE IF fault = 2 THEN 500
  ELSE IF \/ ~queryEmpty(st, "phone", normalizedPhone(body), twentyFourHoursAgo(t))
          \/ ~queryEmpty(st, "email", normalizedEmail(body), twentyFourHoursAgo(t))
       THEN 409
  ELSE IF fault = 3 THEN 500
  ELSE 201

\* how many store calls the handler makes when none rejects
registerCalls(st, t, body) ==
  CASE registerStatus(st, t, body, 0) = 400 -> 0
    [] registerStatus(st, t, body, 0) = 409 -> 2
    [] OTHER -> 3

Register(body, fault, newId) ==
  LET code == registerStatus(store, now, body, fault)
      doc == registrationData(body, now)
  IN /\ res.op = "none"
     /\ fault <= registerCalls(store, now, body)
     /\ IF code = 201 THEN newId \in Ids \ DOMAIN store ELSE newId = NoSuchId
     /\ lastReg' = IF code = 201 THEN [id |-> newId, body |-> body] ELSE NoReg
     /\ store' = IF code = 201 THEN store @@ (newId :> doc) ELSE store
     /\ res' = Response("register", code, fault,
                         IF fault > 0 THEN fault ELSE registerCalls(store, now, body),
                         body, newId,
                         IF code = 201
                         THEN <<[id |-> newId, name |-> doc.name, email |-> doc.email]>>
                         ELSE <<>>)
     /\ UNCHANGED <<now, inflight>>

(***************************************************************************)
(* GET /api/registrations.  fault = 1: query.get() rejects.                *)
(***************************************************************************)
\* registrationsCollection.orderBy('createdAt', 'desc') with the optional
\* equality filters; Firestore breaks ties of createdAt by document id, in
\* the direction of the last orderBy
matches(st, query, id) ==
  /\ FalsyStr(query, "status") \/ st[id].status = query["status"]
  /\ FalsyStr(query, "inquiryType") \/ st[id].inquiryType = query["inquiryType"]

before(st, a, b) ==
  \/ st[a].createdAt > st[b].createdAt
  \/ st[a].createdAt = st[b].createdAt /\ a > b

RECURSIVE orderByCreatedAtDesc(_, _)
orderByCreatedAtDesc(st, ids) ==
  IF ids = {} THEN <<>>
  ELSE LET first == CHOOSE a \in ids : \A b \in ids \ {a} : before(st, a, b)
       IN <<withId(st, first)>> \o orderByCreatedAtDesc(st, ids \ {first})

allRegistrations(st, query) ==
  orderByCreatedAtDesc(st, {id \in DOMAIN st : matches(st, query, id)})

\* const { page = 1, limit = 20 } = req.query, as the numbers the arithmetic
\* of the handler sees
pageOf(query) == IF "page" \in DOMAIN query THEN parseInt(query["page"]) ELSE DefaultPage
limitOf(query) == IF "limit" \in DOMAIN query THEN parseInt(query["limit"]) ELSE DefaultLimit

\* mutant of startIndex: the page is taken as 0-based
startIndexZeroBased(query) == pageOf(query) * limitOf(query)

startIndex(query) == (pageOf(query) - 1) * limitOf(query)
endIndex(query) == startIndex(query) + limitOf(query)

paginatedRegistrations(st, query) ==
  slice(allRegistrations(st, query), startIndex(query), endIndex(query))

List(query, fault) ==
  /\ res.op = "none"
  /\ UNCHANGED <<lastReg, inflight>>
  /\ res' = IF fault = 1
            THEN Response("list", 500, fault, 1, query, NoSuchId, <<>>)
            ELSE [Response("list", 200, fault, 1, query, NoSuchId,
                           paginatedRegistrations(store, query))
                    EXCEPT !.page = pageOf(query),
                           !.limit = limitOf(query),
                           !.total = Len(allRegistrations(store, query)),
                           !.pages = Ceil(Len(allRegistrations(store, query)),
                                          limitOf(query))]
  /\ UNCHANGED <<store, now>>

(***************************************************************************)
(* PATCH /api/registrations/:id.  fault = k > 0: the k-th store call of    *)
(* the handler (get, update, get) rejects, if the handler gets that far.   *)
(***************************************************************************)
\* mutant of invalidStatus: the status is not checked against validStatuses
invalidStatusUnchecked(body) == FALSE

invalidStatus(body) ==
  ~FalsyStr(body, "status") /\ body["status"] \notin validStatuses

\* the keys of updateData
updateKeys(body) ==
  (IF ~FalsyStr(body, "status") THEN {"status"} ELSE {})
  \cup (IF "notes" \in DOMAIN body THEN {"notes"} ELSE {})

\* docRef.update(updateData): the named fields are replaced, the others kept
updated(doc, body) ==
  [doc EXCEPT !.status = IF "status" \in updateKeys(body) THEN body["status"] ELSE @,
              !.notes = IF "notes" \in updateKeys(body) THEN body["notes"] ELSE @]

\* Firestore's update() throws 'At least one field must be updated.' on an
\* empty updateData, before any request is sent
updateThrows(body) == updateKeys(body) = {}

\* mutant of patchStatus: the document is looked up before the status is checked
patchStatusLookupFirst(st, id, body, fault) ==
  IF fault = 1 THEN 500
  ELSE IF id \notin DOMAIN st THEN 404
  ELSE IF invalidStatus(body) THEN 400
  ELSE IF updateThrows(body) THEN 500
  ELSE IF fault = 2 THEN 500
  ELSE IF fault = 3 THEN 500
  ELSE 200

patchStatus(st, id, body, fault) ==
  IF invalidStatus(body) THEN 400
  ELSE IF fault = 1 THEN 500
  ELSE IF id \notin DOMAIN st THEN 404
  ELSE IF updateThrows(body) THEN 500
  ELSE IF fault = 2 THEN 500
  ELSE IF fault = 3 THEN 500
  ELSE 200

\* the update is applied when the handler reaches docRef.update and it resolves
patchWrites(st, id, body, fault) ==
  /\ ~invalidStatus(body)
  /\ id \in DOMAIN st
  /\ ~updateThrows(body)
  /\ fault \in {0, 3}

\* how many store calls the handler makes when none rejects
patchCalls(st, id, body) ==
  CASE patchStatus(st, id, body, 0) = 400 -> 0
    [] patchStatus(st, id, body, 0) = 404 -> 1
    [] patchStatus(st, id, body, 0) = 500 -> 1
    [] OTHER -> 3

Patch(id, body, fault) ==
  LET code == patchStatus(store, id, body, fault)
      st2 == IF patchWrites(store, id, body, fault)
             THEN [store EXCEPT ![id] = updated(@, body)]
             ELSE store
  IN /\ res.op = "none"
     /\ fault <= patchCalls(store, id, body)
     /\ lastReg' = NoReg
     /\ store' = st2
     /\ res' = Response("patch", code, fault,
                         IF fault > 0 THEN fault ELSE patchCalls(store, id, body),
                         body, id,
                         IF code = 200 THEN <<withId(st2, id)>> ELSE <<>>)
     /\ UNCHANGED <<now, inflight>>

(***************************************************************************)
(* The clock: Date.now() and new Date() read now.                          *)
(***************************************************************************)
Tick ==
  /\ now + TickMs <= MaxTicks * TickMs
  /\ now' = now + TickMs
  /\ UNCHANGED <<store, res, lastReg, inflight>>

\* the response is sent and the handler returns
Done ==
  /\ res.op # "none"
  /\ res' = Idle
  /\ UNCHANGED <<store, now, lastReg, inflight>>

(***************************************************************************)
(* POST /api/register with requests in flight together.  The handler is    *)
(* async: it gives up the event loop at each await (phoneQuery.get(),      *)
(* emailQuery.get(), registrationsCollection.add()), and the steps of      *)
(* other requests run in between.  inflight[c] is the request of client c  *)
(* between two awaits: pc is the await it is suspended at, since is        *)
(* twentyFourHoursAgo, phoneEmpty and emailEmpty are phoneQuery.empty and  *)
(* emailQuery.empty, createdAt is registrationData.createdAt, code and id  *)
(* are the response.  seen is the set of documents in the collection when  *)
(* the second query resolved.                                              *)
(***************************************************************************)
Clients == {"c1", "c2"}

NoRequest ==
  [pc |-> "idle", body |-> NoBody, since |-> 0, phoneEmpty |-> FALSE,
   emailEmpty |-> FALSE, createdAt |-> 0, seen |-> {}, code |-> 0,
   id |-> NoSuchId]

\* the requests past validation that have not answered yet
Pending == { c \in Clients : inflight[c].pc \in {"phoneQuery", "emailQuery", "add"} }

\* lines 113-133: the presence check, validateRegistration and Date.now()
Receive(c, body) ==
  /\ inflight[c].pc = "idle"
  /\ Cardinality(DOMAIN store) + Cardinality(Pending) < MaxRecords
  /\ inflight' = [inflight EXCEPT ![c] =
       IF missingRequired(body) \/ Len(validateRegistration(body)) > 0
       THEN [NoRequest EXCEPT !.pc = "done", !.body = body, !.code = 400]
       ELSE [NoRequest EXCEPT !.pc = "phoneQuery", !.body = body,
                              !.since = twentyFourHoursAgo(now)]]
  /\ UNCHANGED <<store, now, res, lastReg>>

\* lines 135-139: await phoneQuery.get() resolves, or rejects (fault)
PhoneQuery(c, fault) ==
  LET r == inflight[c]
  IN /\ r.pc = "phoneQuery"
     /\ inflight' = [inflight EXCEPT ![c] =
          IF fault THEN [r EXCEPT !.pc = "done", !.code = 500]
          ELSE [r EXCEPT !.pc = "emailQuery",
                         !.phoneEmpty = queryEmpty(store, "phone",
                                           normalizedPhone(r.body), r.since)]]
     /\ UNCHANGED <<store, now, res, lastReg>>

\* line 147: !phoneQuery.empty || !emailQuery.empty
duplicateFound(phoneEmpty, emailEmpty) == ~phoneEmpty \/ ~emailEmpty

\* lines 141-165: await emailQuery.get() resolves, or rejects (fault); then
\* the 409, or registrationData with createdAt: new Date()
EmailQuery(c, fault) ==
  LET r == inflight[c]
      empty == queryEmpty(store, "email", normalizedEmail(r.body), r.since)
  IN /\ r.pc = "emailQuery"
     /\ inflight' = [inflight EXCEPT ![c] =
          IF fault THEN [r EXCEPT !.pc = "done", !.code = 500]
          ELSE IF duplicateFound(r.phoneEmpty, empty)
          THEN [r EXCEPT !.pc = "done", !.code = 409, !.emailEmpty = empty,
                         !.seen = DOMAIN store]
          ELSE [r EXCEPT !.pc = "add", !.emailEmpty = empty,
                         !.seen = DOMAIN store, !.createdAt = now]]
     /\ UNCHANGED <<store, now, res, lastReg>>

\* mutant of added: the document is created only if no document of the
\* window has its phone or its email
addedIfAbsent(st, r, newId) ==
  IF /\ queryEmpty(st, "phone", normalizedPhone(r.body), r.since)
     /\ queryEmpty(st, "email", normalizedEmail(r.body), r.since)
  THEN st @@ (newId :> registrationData(r.body, r.createdAt))
  ELSE st

\* line 167: registrationsCollection.add(registrationData)
added(st, r, newId) == st @@ (newId :> registrationData(r.body, r.createdAt))

\* lines 167-179: await add() resolves and the 201 is sent, or it rejects
Add(c, fault, newId) ==
  LET r == inflight[c]
  IN /\ r.pc = "add"
     /\ newId \in Ids \ DOMAIN store
     /\ inflight' = [inflight EXCEPT ![c] =
          IF fault THEN [r EXCEPT !.pc = "done", !.code = 500]
          ELSE [r EXCEPT !.pc = "done", !.code = 201, !.id = newId]]
     /\ store' = IF fault THEN store ELSE added(store, r, newId)
     /\ UNCHANGED <<now, res, lastReg>>

\* the response is sent and the client may send its next request
Respond(c) ==
  /\ inflight[c].pc = "done"
  /\ inflight' = [inflight EXCEPT ![c] = NoRequest]
  /\ UNCHANGED <<store, now, res, lastReg>>

(***************************************************************************)
(* Requests the clients send.                                              *)
(***************************************************************************)
Phone1 == <<"9","8","7","6","5","4","3","2","1","0">>
Phone2 == <<"6","0","0","0","0","0","0","0","0","1">>
EmailA == <<"A","@","b",".","c">>
EmailX == <<"x","@","b",".","c">>

Candidate(name, phone, email) ==
  [k \in {"name", "phone", "email", "state", "city"} |->
     CASE k = "name" -> name
       [] k = "phone" -> phone
       [] k = "email" -> email
       [] k = "state" -> "KA"
       [] k = "city" -> "BLR"]

With(body, k, v) == [x \in DOMAIN body \cup {k} |-> IF x = k THEN v ELSE body[x]]
Without(body, k) == [x \in DOMAIN body \ {k} |-> body[x]]

Base == Candidate(<<"A","l">>, Phone1, toLowerCase(EmailA))

ValidBodies ==
  { Candidate(<<" ","A","l"," ">>, Phone1, EmailA),
    With(Candidate(<<"A","l">>, Phone1, EmailX), "inquiryType", "inquiry"),
    With(Candidate(<<"B","o">>, Phone2, toLowerCase(EmailA)), "inquiryType", "bogus") }

InvalidBodies ==
  { Without(Base, k) : k \in DOMAIN Base }
  \cup { With(Base, k, <<>>) : k \in {"name", "email"} }
  \cup { With(Base, k, "") : k \in {"city"} }
  \cup { With(Base, "name", n) : n \in {<<"A">>, <<" ","A"," ">>} }
  \cup { With(Base, "phone", ph) :
           ph \in { <<"5","1","2","3","4","5","6","7","8","9">>,
                    SubSeq(Phone1, 1, 9),
                    <<" ">> \o Phone1,
                    <<"9","8","7","6","5","x","3","2","1","0">> } }
  \cup { With(Base, "email", e) :
           e \in { <<"b","a","d","-","e","m","a","i","l">>,
                   <<"a","@","b","c">>,
                   <<"a"," ","@","b",".","c">>,
                   <<"a","@","@","b",".","c">> } }

Bodies == ValidBodies \cup InvalidBodies

\* the key k absent, or sent with one of the values vs
Opt(k, vs) == {NoBody} \cup { k :> v : v \in vs }

PatchBodies ==
  { s @@ n : s \in Opt("status", {"", "contacted", "bogus"}),
             n \in Opt("notes", {"", "x"}) }

Queries ==
  { p @@ l @@ s @@ i : p \in Opt("page", {<<"1">>, <<"2">>}),
                       l \in Opt("limit", {<<"1">>, <<"2">>}),
                       s \in Opt("status", {"contacted"}),
                       i \in Opt("inquiryType", {"inquiry"}) }

Init ==
  /\ store = [id \in {} |-> 0]
  /\ now = 0
  /\ res = Idle
  /\ lastReg = NoReg
  /\ inflight = [c \in Clients |-> NoRequest]

\* the lowest id no document has
lowestFreeId ==
  IF Ids \ DOMAIN store = {} THEN NoSuchId
  ELSE CHOOSE i \in Ids \ DOMAIN store : \A j \in Ids \ DOMAIN store : i <= j

AnyRegister ==
  \E body \in Bodies, fault \in 0..3, newId \in Ids \cup {NoSuchId} :
    Register(body, fault, newId)

AnyList == \E query \in Queries, fault \in 0..1 : List(query, fault)

AnyPatch ==
  \E id \in Ids \cup {NoSuchId}, body \in PatchBodies, fault \in 0..3 :
    Patch(id, body, fault)

\* the registrations that can succeed, the store answering
ValidRegister ==
  \E body \in ValidBodies, newId \in Ids \cup {NoSuchId} : Register(body, 0, newId)

\* the same, Firestore generating the lowest free id
ValidRegisterInOrder ==
  \E body \in ValidBodies : \E newId \in {lowestFreeId, NoSuchId} : Register(body, 0, newId)

\* an admin marks a record contacted
MarkContacted == \E id \in Ids : Patch(id, "status" :> "contacted", 0)

\* the server, every request
Next ==
  \/ AnyRegister
  \/ AnyList
  \/ AnyPatch
  \/ Tick
  \/ Done

Spec == Init /\ [][Next]_vars

\* the public route alone
NextRegister ==
  \/ AnyRegister
  \/ Tick
  \/ Done

SpecRegister == Init /\ [][NextRegister]_vars

\* registrations that succeed, and every update
NextAdmin ==
  \/ ValidRegisterInOrder
  \/ AnyPatch
  \/ Tick
  \/ Done

SpecAdmin == Init /\ [][NextAdmin]_vars

\* registrations that succeed, status changes, and every listing
NextList ==
  \/ ValidRegister
  \/ MarkContacted
  \/ AnyList
  \/ Tick
  \/ Done

SpecList == Init /\ [][NextList]_vars

\* POST /api/register from the clients together, interleaved at the awaits
RaceBodies == ValidBodies \cup {Without(Base, "city")}

AnyReceive == \E c \in Clients, body \in RaceBodies : Receive(c, body)
AnyPhoneQuery == \E c \in Clients, fault \in BOOLEAN : PhoneQuery(c, fault)
AnyEmailQuery == \E c \in Clients, fault \in BOOLEAN : EmailQuery(c, fault)
AnyAdd == \E c \in Clients, fault \in BOOLEAN : Add(c, fault, lowestFreeId)
AnyRespond == \E c \in Clients : Respond(c)

NextRace ==
  \/ AnyReceive
  \/ AnyPhoneQuery
  \/ AnyEmailQuery
  \/ AnyAdd
  \/ AnyRespond
  \/ Tick

SpecRace == Init /\ [][NextRace]_vars

(***************************************************************************)
(* Properties.  A step from an idle state to a state whose res.op is h is  *)
(* the handler h answering the request recorded in res'.                   *)
(***************************************************************************)
Handled(h) == res.op = "none" /\ res'.op = h

\* the documents of the old collection are all kept as they were
OthersKept(ids) == \A id \in DOMAIN store \ ids : id \in DOMAIN store' /\ store'[id] = store[id]

\* the candidate has all five required fields and the Validator accepts it
PassesValidation(body) == ~missingRequired(body) /\ Len(validateRegistration(body)) = 0

\* a stored record with the candidate's phone or its trimmed, lower-cased
\* email, created at or after t - 24 hours
RecentDuplicate(st, t, body) ==
  \E id \in DOMAIN st :
    /\ \/ st[id].phone = body["phone"]
       \/ st[id].email = toLowerCase(trim(body["email"]))
    /\ st[id].createdAt >= t - 24 * 60 * 60 * 1000

\* C1: with requests handled one at a time and the store answering, a register
\* of a candidate that passes validation is answered 409 and persists nothing
\* if a record with the same phone or normalized email was created in the
\* last 24 hours (inclusive), and otherwise is answered 201 and persists
\* exactly one new record.
C1_DedupWindow ==
  [][ (Handled("register") /\ res'.fault = 0 /\ PassesValidation(res'.body))
      => IF RecentDuplicate(store, now, res'.body)
         THEN res'.code = 409 /\ store' = store
         ELSE /\ res'.code = 201
              /\ \E id \in DOMAIN store' \ DOMAIN store :
                    DOMAIN store' = DOMAIN store \cup {id}
              /\ OthersKept({}) ]_vars

\* a register succeeded although an older record has the same phone or email:
\* that record's window has elapsed
C1_Witness ==
  /\ res.op = "register"
  /\ res.code = 201
  /\ \E old \in DOMAIN store \ {res.id} :
       /\ \/ store[old].phone = store[res.id].phone
          \/ store[old].email = store[res.id].email
       /\ store[old].createdAt < store[res.id].createdAt - WindowMs

\* a candidate the pre-check or the Validator rejects, stated from the
\* field rules
Rejected(body) ==
  \/ \E k \in {"name", "phone", "email"} : k \notin DOMAIN body \/ Len(body[k]) = 0
  \/ \E k \in {"state", "city"} : k \notin DOMAIN body \/ body[k] = ""
  \/ Len(trim(body["name"])) < 2
  \/ ~PhoneRegex(body["phone"])
  \/ ~EmailRegex(body["email"])

\* C2: a register of a candidate missing a required field or failing the
\* Validator is answered 400 with no store call issued and the store
\* unchanged, even when a duplicate exists inside the window.
C2_InvalidIs400 ==
  [][ (Handled("register") /\ Rejected(res'.body))
      => res'.code = 400 /\ res'.calls = 0 /\ store' = store ]_vars

\* a 400 for a candidate with every field present whose phone a record of the
\* last 24 hours has
C2_Witness ==
  /\ res.op = "register"
  /\ res.code = 400
  /\ DOMAIN res.body = {"name", "phone", "email", "state", "city"}
  /\ ~missingRequired(res.body)
  /\ \E id \in DOMAIN store :
       store[id].phone = res.body["phone"] /\ store[id].createdAt >= now - WindowMs

\* C3: the status of every stored record is one of the four values.
C3_StatusEnum ==
  \A id \in DOMAIN store : store[id].status \in {"new", "contacted", "enrolled", "closed"}

\* an update has just changed the status of a record
C3_Witness ==
  /\ res.op = "patch"
  /\ res.code = 200
  /\ "status" \in DOMAIN res.body
  /\ store[res.id].status = res.body["status"]
  /\ store[res.id].status # "new"

\* the status sent is one the handler may write: absent, or one of the four
StatusAcceptable(body) ==
  "status" \in DOMAIN body => body["status"] \in {"new", "contacted", "enrolled", "closed"}

\* C4: a PATCH of an existing record changes status only if status is sent and
\* notes only if notes is sent (an empty string included), leaves every other
\* field and every other record as they were, and returns the updated record.
C4_PartialUpdate ==
  [][ (Handled("patch") /\ res'.fault = 0 /\ res'.id \in DOMAIN store
         /\ StatusAcceptable(res'.body))
      => /\ DOMAIN store' = DOMAIN store
         /\ OthersKept({res'.id})
         /\ store'[res'.id] =
              [store[res'.id] EXCEPT
                 !.status = IF "status" \in DOMAIN res'.body
                            THEN res'.body["status"] ELSE @,
                 !.notes = IF "notes" \in DOMAIN res'.body
                           THEN res'.body["notes"] ELSE @]
         /\ res'.code = 200
         /\ res'.data = <<withId(store', res'.id)>> ]_vars

\* C5: a PATCH that sends a status outside the four values is answered 400,
\* whether or not the id exists, and the store is unchanged.
C5_BadStatusIs400 ==
  [][ (Handled("patch") /\ res'.fault = 0 /\ "status" \in DOMAIN res'.body
         /\ res'.body["status"] \notin {"new", "contacted", "enrolled", "closed"})
      => res'.code = 400 /\ store' = store ]_vars

\* C6 as stated: a PATCH of an id no record has is answered 404 and the store
\* is unchanged.
C6_Original ==
  [][ (Handled("patch") /\ res'.fault = 0 /\ res'.id \notin DOMAIN store)
      => res'.code = 404 /\ store' = store ]_vars

\* C6, amended: a PATCH of an id no record has is answered 404, unless it sends
\* a non-empty status outside the four values, which is answered 400 before
\* the lookup; either way no record is created or modified.
C6_MissingIdIs404 ==
  [][ (Handled("patch") /\ res'.fault = 0 /\ res'.id \notin DOMAIN store)
      => /\ res'.code =
              IF /\ "status" \in DOMAIN res'.body
                 /\ res'.body["status"] # ""
                 /\ res'.body["status"] \notin {"new", "contacted", "enrolled", "closed"}
              THEN 400 ELSE 404
         /\ store' = store ]_vars

\* a 404 for an id no record has, with other records stored
C6_Witness ==
  /\ res.op = "patch"
  /\ res.code = 404
  /\ res.id \notin DOMAIN store
  /\ "notes" \in DOMAIN res.body
  /\ DOMAIN store # {}

\* the ids of the records the filters of a list request select
Selected(query) ==
  { id \in DOMAIN store :
      /\ "status" \in DOMAIN query => store[id].status = query["status"]
      /\ "inquiryType" \in DOMAIN query => store[id].inquiryType = query["inquiryType"] }

RequestedPage(query) == IF "page" \in DOMAIN query THEN parseInt(query["page"]) ELSE 1
RequestedLimit(query) == IF "limit" \in DOMAIN query THEN parseInt(query["limit"]) ELSE 20

\* C7: a list returns total = the number of selected records,
\* pages = ceil(total / limit), and exactly the records at positions
\* (page-1)*limit+1 .. page*limit (1-based) of the selected records in
\* descending order of createdAt; page and limit default to 1 and 20.
C7_Pagination ==
  (res.op = "list" /\ res.code = 200) =>
    LET sel == Selected(res.body)
        pg == RequestedPage(res.body)
        lim == RequestedLimit(res.body)
        first == (pg - 1) * lim + 1
        newer(c) == Cardinality({id \in sel : store[id].createdAt > c})
        notOlder(c) == Cardinality({id \in sel : store[id].createdAt >= c})
    IN /\ res.page = pg
       /\ res.limit = lim
       /\ res.total = Cardinality(sel)
       /\ res.pages * lim >= res.total
       /\ (res.pages - 1) * lim < res.total
       /\ Len(res.data) = Cardinality({q \in first .. (pg * lim) : q <= res.total})
       /\ \A k \in 1..Len(res.data) :
            /\ res.data[k].id \in sel
            /\ res.data[k] = withId(store, res.data[k].id)
            /\ newer(res.data[k].createdAt) < first + k - 1
            /\ first + k - 1 <= notOlder(res.data[k].createdAt)
            /\ \A j \in 1..Len(res.data) : res.data[j].id = res.data[k].id => j = k

\* page 2 with limit 1 of two records created at different times returns
\* the older one, and pages = 2
C7_Witness ==
  /\ res.op = "list"
  /\ res.code = 200
  /\ DOMAIN res.body = {"page", "limit"}
  /\ res.page = 2
  /\ res.limit = 1
  /\ res.total = 2
  /\ res.pages = 2
  /\ Len(res.data) = 1
  /\ \E id \in DOMAIN store : store[id].createdAt > res.data[1].createdAt

\* the record a list returns under the id the last register generated
Fetched == { k \in 1..Len(res.data) : res.data[k].id = lastReg.id }

RoundTrip ==
  /\ res.op = "list"
  /\ res.code = 200
  /\ lastReg.id # NoSuchId
  /\ "status" \notin DOMAIN res.body
  /\ "inquiryType" \notin DOMAIN res.body

\* the first page is long enough to hold every record
Covering == res.page = 1 /\ res.limit >= res.total

\* C8 as stated: the record listed right after a successful register has the
\* submitted name, the trimmed and lower-cased submitted email, and status new.
C8_Original ==
  RoundTrip =>
    /\ Covering => Fetched # {}
    /\ \A k \in Fetched :
         /\ res.data[k].name = lastReg.body["name"]
         /\ res.data[k].email = toLowerCase(trim(lastReg.body["email"]))
         /\ res.data[k].status = "new"

\* C8, amended: the record listed right after a successful register has the
\* trimmed submitted name, the trimmed and lower-cased submitted email, and
\* status new.
C8_RoundTrip ==
  RoundTrip =>
    /\ Covering => Fetched # {}
    /\ \A k \in Fetched :
         /\ res.data[k].name = trim(lastReg.body["name"])
         /\ res.data[k].email = toLowerCase(trim(lastReg.body["email"]))
         /\ res.data[k].status = "new"

\* a list after a register whose name was padded and whose email had an upper
\* case letter returns the record with both normalized
C8_Witness ==
  /\ RoundTrip
  /\ \E k \in Fetched :
       /\ res.data[k].name # lastReg.body["name"]
       /\ res.data[k].email # lastReg.body["email"]

\* C9: a register whose store call rejects is answered 503, and nothing is
\* persisted.
C9_StoreUnavailableIs503 ==
  [][ (Handled("register") /\ res'.fault > 0)
      => res'.code = 503 /\ store' = store ]_vars

\* C10: the inquiryType of every stored record is register or inquiry, and a
\* register without inquiryType stores register.
C10_InquiryTypeEnum ==
  /\ \A id \in DOMAIN store : store[id].inquiryType \in {"register", "inquiry"}
  /\ (res.op = "register" /\ res.code = 201 /\ "inquiryType" \notin DOMAIN res.body)
       => store[res.id].inquiryType = "register"

\* two requests in flight carry the same phone or the same normalized email
SameContact(a, b) ==
  \/ normalizedPhone(inflight[a].body) = normalizedPhone(inflight[b].body)
  \/ normalizedEmail(inflight[a].body) = normalizedEmail(inflight[b].body)

\* the request of client c got both its queries back empty and its add
\* resolved
PassedCheck(c) ==
  /\ inflight[c].pc = "done"
  /\ inflight[c].code \notin {400, 500}
  /\ ~duplicateFound(inflight[c].phoneEmpty, inflight[c].emailEmpty)

\* the record the request of client c wrote is in the collection
Persisted(c) ==
  /\ inflight[c].id \in DOMAIN store
  /\ store[inflight[c].id] = registrationData(inflight[c].body, inflight[c].createdAt)

\* C11: the duplicate check is a read followed by a write with nothing held
\* in between: two requests in flight together with the same phone or the
\* same normalized email whose duplicate queries both came back empty are
\* both answered 201 and both persisted, as two records, whatever the other
\* wrote after the queries.
C11_CheckThenWrite ==
  \A a, b \in Clients :
    (a # b /\ PassedCheck(a) /\ PassedCheck(b) /\ SameContact(a, b))
      => /\ inflight[a].code = 201 /\ inflight[b].code = 201
         /\ Persisted(a) /\ Persisted(b)
         /\ inflight[a].id # inflight[b].id

\* the interleaving: both requests ran their two queries before either
\* wrote, both are answered 201, and the collection holds two records with
\* the same phone or email created less than 24 hours apart
C11_Witness ==
  \E a, b \in Clients :
    /\ a # b
    /\ inflight[a].code = 201 /\ inflight[b].code = 201
    /\ SameContact(a, b)
    /\ inflight[a].id \notin inflight[b].seen
    /\ inflight[b].id \notin inflight[a].seen
    /\ Persisted(a) /\ Persisted(b) /\ inflight[a].id # inflight[b].id
    /\ \/ store[inflight[a].id].phone = store[inflight[b].id].phone
       \/ store[inflight[a].id].email = store[inflight[b].id].email
    /\ store[inflight[a].id].createdAt - store[inflight[b].id].createdAt < WindowMs
    /\ store[inflight[b].id].createdAt - store[inflight[a].id].createdAt < WindowMs

====
